---- MODULE Spec2Model ----
(***************************************************************************)
(* Model of the CompanyCam SDK transport layer.                            *)
(*                                                                         *)
(* Part 1: src/http/RateLimiter.ts, the token-bucket RateLimiter with its  *)
(* FIFO queue of pending acquisitions, the setInterval refill callback,    *)
(* abort-signal handling (attachAbortListener) and dispose().              *)
(*                                                                         *)
(* Token counts are JavaScript numbers: tokensPerInterval may be any       *)
(* number >= 1 (Math.max(1, ...)), so the model stores token counts in     *)
(* units of 1/Scale of a token and a whole token is One == Scale units.    *)
(* Time is counted in refill intervals (intervalMs / tokensPerInterval),   *)
(* one per run of the setInterval callback.                                *)
(*                                                                         *)
(* Part 2: src/http/HttpClient.ts, the HttpClient: its constructor (the    *)
(* ownership of the rate limiter, the axios-retry configuration),          *)
(* request(), dispose(), shouldRetry(), computeRetryDelay() and            *)
(* prepareRequestConfig().                                                 *)
(*                                                                         *)
(* Part 3: the pure helpers APIError.fromAxios (src/http/Errors.ts) and    *)
(* cleanQueryParameters, each applied to inputs drawn in its own Init.     *)
(***************************************************************************)
EXTENDS Integers, Sequences, FiniteSets, TLC

(* ---- bounds of the model ---- *)
MaxAcquires == 3     \* acquire() calls made in one run
MaxTicks    == 2     \* refill callbacks counted by the clock
MaxCapacity == 2     \* largest tokensPerInterval, in whole tokens
Scale       == 2     \* token counts are multiples of 1/Scale

One == Scale * 1     \* the literal 1 of `tokens -= 1` / `tokens += 1`

Ids == 1..MaxAcquires

\* The three shapes of AbortSignalLike that attachAbortListener tells apart:
\* one with addEventListener, one with only an onabort property, and one
\* with neither (only the `aborted` flag).
NoSignal == "undefined"
Signals  == {"event", "onabort", "flag"}

\* Math.max(1, options.tokensPerInterval ?? 100): the whole capacities and
\* the capacities with a fractional part of 1/Scale
Capacities ==
  {c * One : c \in 1..MaxCapacity} \cup
  {c * One + 1 : c \in 1..(MaxCapacity - 1)}

VARIABLES
  tokensPerInterval,  \* this.tokensPerInterval (in 1/Scale units)
  tokens,             \* this.tokens (in 1/Scale units)
  queue,              \* this.queue: sequence of pending acquisition ids
  timerRunning,       \* refillHandle is still scheduled (not cleared)
  status,             \* promise state of each acquire() call
  via,                \* code path that settled the promise
  taken,              \* times `this.tokens -= 1` ran on behalf of a call
  sig,                \* the signal argument of each call
  previous,           \* `previous` captured by attachAbortListener
  grantedAt,          \* clock value when the call was granted (recorded
                      \* by TimedSpec only)
  aborted,            \* signal.aborted
  listeners,          \* 'abort' listeners registered on an event signal
  onabort,            \* signal.onabort: the chain of wrapped handlers
  now,                \* refill callbacks run so far: the refill intervals
                      \* elapsed while the timer is scheduled
  nCalls,             \* acquire() calls made so far (arrival order = id)
  cfgLimiter,         \* config.rateLimiter given to each HttpClient
  allowPostRetry,     \* HttpClient.allowPostRetry
  retries,            \* the `retries` handed to axiosRetry
  req,                \* the HttpClient.request() calls
  disposeCalled,      \* the clients whose dispose() has been called
  disposedBy,         \* who has called dispose() on the rate limiter
  call,               \* a call of a helper function: its inputs, its result
  headerState         \* a client's stored headers and token, the configs sent

limiterVars == <<tokensPerInterval, tokens, queue, timerRunning, status, via,
                 taken, sig, previous, grantedAt, aborted, listeners, onabort,
                 now, nCalls>>

httpVars == <<cfgLimiter, allowPostRetry, retries, req, disposeCalled,
              disposedBy>>

helperVars == <<call, headerState>>

vars == <<limiterVars, httpVars, helperVars>>

Min(a, b) == IF a < b THEN a ELSE b

Settled == {"granted", "aborted", "disposed"}

(* ---- promise semantics: resolve/reject act only on a pending promise ---- *)
Settle(r, i, outcome, path) ==
  IF r.status[i] = "queued"
  THEN [r EXCEPT !.status[i] = outcome, !.via[i] = path]
  ELSE r

(* ---- RateLimiter.removeFromQueue ---- *)
RemoveFromQueue(q, i) == SelectSeq(q, LAMBDA j : j # i)

(* ---- signal?.aborted ---- *)
\* variant: the aborted flag of the signal is never consulted
SignalAbortedIgnored(s) == FALSE

SignalAborted(s) == s # NoSignal /\ aborted[s]

(* ---- attachAbortListener: registration ---- *)
AttachListeners(ls, s, i) ==
  IF s = "event" THEN [ls EXCEPT ![s] = Append(@, i)] ELSE ls

AttachOnabort(oa, s, i) ==
  IF s = "onabort" THEN [oa EXCEPT ![s] = <<i>> \o @] ELSE oa

(* ---- attachAbortListener: the returned detach function ---- *)
DetachAbort(r, i) ==
  LET s == sig[i] IN
  IF s = "event"
  THEN [r EXCEPT !.listeners[s] = RemoveFromQueue(@, i)]
  ELSE IF s = "onabort"
  THEN [r EXCEPT !.onabort[s] = previous[i]]
  ELSE r

(* ---- the onAbort closure of acquire() ---- *)
\* variant: onAbort rejects without calling removeFromQueue
OnAbortKeepsEntry(r, i) == Settle(r, i, "aborted", "listener")

OnAbort(r, i) ==
  Settle([r EXCEPT !.queue = RemoveFromQueue(@, i)], i, "aborted", "listener")

RECURSIVE RunHandlers(_, _)
RunHandlers(hs, r) ==
  IF hs = <<>> THEN r ELSE RunHandlers(Tail(hs), OnAbort(r, Head(hs)))

(* ---- pieces of acquire() and refill() ---- *)
TakeToken(t) == t - One

\* variant: the comparison of the refill increment is inverted
AddTokenInverted(t, cap) == IF t > cap THEN t + One ELSE t

\* variant: a refill step adds two tokens
AddTwoTokens(t, cap) == IF t < cap THEN t + One + One ELSE t

AddToken(t, cap) == IF t < cap THEN t + One ELSE t

ClampTokens(t, cap) == IF t > cap THEN cap ELSE t

\* variant: pop() instead of shift()
ShiftFromTail(q) == [pending |-> q[Len(q)], rest |-> SubSeq(q, 1, Len(q) - 1)]

\* this.queue.shift(): the head and the queue left behind
Shift(q) == [pending |-> Head(q), rest |-> Tail(q)]

\* variant: the aborted entry is charged a token before it is rejected
RejectAbortedTakingToken(r, p) ==
  [Settle(r, p, "aborted", "dequeue") EXCEPT !.tokens = @ - One]

\* refill(): `if (pending.signal?.aborted) { pending.reject(...); continue; }`
RejectAborted(r, p) == Settle(r, p, "aborted", "dequeue")

\* pending.resolve(): detachAbort?.(); resolve()
Grant(r, i, path, at) ==
  LET d == IF path = "refill" THEN DetachAbort(r, i) ELSE r IN
  [d EXCEPT !.status[i] = "granted", !.via[i] = path,
            !.tokens = TakeToken(@), !.taken[i] = @ + 1,
            !.grantedAt[i] = at]

\* variant: refill() without its while loop
DrainNothing(r, at) == r

\* the while loop of refill()
RECURSIVE Drain(_, _)
Drain(r, at) ==
  IF r.tokens > 0 /\ Len(r.queue) > 0
  THEN LET sh == Shift(r.queue)
           p == sh.pending
           s == [r EXCEPT !.queue = sh.rest]
       IN IF SignalAborted(sig[p])
          THEN Drain(RejectAborted(s, p), at)
          ELSE Drain(Grant(s, p, "refill", at), at)
  ELSE r

Cur == [tokens |-> tokens, queue |-> queue, status |-> status, via |-> via,
        taken |-> taken, grantedAt |-> grantedAt, listeners |-> listeners,
        onabort |-> onabort]

Store(r) ==
  /\ tokens' = r.tokens
  /\ queue' = r.queue
  /\ status' = r.status
  /\ via' = r.via
  /\ taken' = r.taken
  /\ grantedAt' = r.grantedAt
  /\ listeners' = r.listeners
  /\ onabort' = r.onabort

(***************************************************************************)
(* HttpClient: state                                                       *)
(***************************************************************************)
MaxRequests == 1     \* HttpClient.request() calls made in one run
MaxClients  == 2     \* HttpClient instances
MaxRetries  == 1     \* largest configured retry.retries

DefaultRetries == 3  \* retryConfig.retries ?? 3

Requests == 1..MaxRequests

Clients == 1..MaxClients

\* an error value with every field unset
NoError ==
  [name |-> "none", isAxiosError |-> FALSE, method |-> "undefined",
   hasResponse |-> FALSE, status |-> 0, code |-> "undefined",
   cause |-> "none"]

\* a request() call that has not been made yet
IdleRequest ==
  [phase |-> "idle", client |-> 0, useRateLimiter |-> "undefined",
   signal |-> NoSignal, method |-> "undefined", acq |-> 0,
   acquireCalls |-> 0, configBuilds |-> 0, attempts |-> 0, fromAxios |-> 0,
   err |-> NoError, shouldRetry |-> "none", outcome |-> "none",
   thrown |-> NoError]

\* no helper function is being called, no headers are being merged
NoHelperCall == call = [fn |-> "none"] /\ headerState = [fn |-> "none"]

\* no client has been constructed, no request made
HttpIdle ==
  /\ cfgLimiter = [c \in Clients |-> "null"]
  /\ allowPostRetry = FALSE
  /\ retries = DefaultRetries
  /\ req = [r \in Requests |-> IdleRequest]
  /\ disposeCalled = {}
  /\ disposedBy = [clients |-> {}, caller |-> FALSE]

NoHttpClient == HttpIdle /\ NoHelperCall

(***************************************************************************)
(* RateLimiter: operations                                                 *)
(***************************************************************************)
(* ---- constructor ---- *)
LimiterInit ==
  /\ tokensPerInterval \in Capacities
  /\ tokens = tokensPerInterval
  /\ queue = <<>>
  /\ timerRunning = TRUE
  /\ status = [i \in Ids |-> "idle"]
  /\ via = [i \in Ids |-> "none"]
  /\ taken = [i \in Ids |-> 0]
  /\ sig = [i \in Ids |-> NoSignal]
  /\ previous = [i \in Ids |-> <<>>]
  /\ grantedAt = [i \in Ids |-> 0]
  /\ aborted = [s \in Signals |-> FALSE]
  /\ listeners = [s \in Signals |-> <<>>]
  /\ onabort = [s \in Signals |-> <<>>]
  /\ now = 0
  /\ nCalls = 0

\* the limiter on its own: no HttpClient has been constructed
Init == LimiterInit /\ NoHttpClient

(* ---- acquire(signal); `at` is the time recorded for a grant ---- *)
LimiterAcquire(s, at) ==
  /\ nCalls < MaxAcquires
  /\ LET i == nCalls + 1 IN
     /\ nCalls' = i
     /\ sig' = [sig EXCEPT ![i] = s]
     /\ IF SignalAborted(s)
        THEN /\ status' = [status EXCEPT ![i] = "aborted"]
             /\ via' = [via EXCEPT ![i] = "call"]
             /\ UNCHANGED <<tokens, queue, taken, previous, grantedAt,
                            listeners, onabort>>
        ELSE IF tokens > 0
        THEN /\ tokens' = TakeToken(tokens)
             /\ status' = [status EXCEPT ![i] = "granted"]
             /\ via' = [via EXCEPT ![i] = "fast"]
             /\ taken' = [taken EXCEPT ![i] = @ + 1]
             /\ grantedAt' = [grantedAt EXCEPT ![i] = at]
             /\ UNCHANGED <<queue, previous, listeners, onabort>>
        ELSE /\ previous' = [previous EXCEPT
                               ![i] = IF s = "onabort" THEN onabort[s] ELSE <<>>]
             /\ listeners' = AttachListeners(listeners, s, i)
             /\ onabort' = AttachOnabort(onabort, s, i)
             /\ queue' = Append(queue, i)
             /\ status' = [status EXCEPT ![i] = "queued"]
             /\ UNCHANGED <<tokens, via, taken, grantedAt>>
  /\ UNCHANGED <<tokensPerInterval, timerRunning, aborted, now>>

AcquireAt(s, at) == LimiterAcquire(s, at) /\ UNCHANGED <<httpVars, helperVars>>

Acquire(s) == AcquireAt(s, 0)

(* ---- dispose() ---- *)
RECURSIVE Flush(_)
Flush(r) ==
  IF Len(r.queue) > 0
  THEN LET sh == Shift(r.queue) IN
       Flush(Settle([r EXCEPT !.queue = sh.rest], sh.pending, "disposed", "dispose"))
  ELSE r

LimiterDispose ==
  /\ timerRunning' = FALSE
  /\ Store(Flush(Cur))
  /\ UNCHANGED <<tokensPerInterval, sig, previous, aborted, now, nCalls>>

Dispose == LimiterDispose /\ UNCHANGED <<httpVars, helperVars>>

(* ---- refill(), the setInterval callback ---- *)
RefillResult(r, at) ==
  LET a == [r EXCEPT !.tokens = AddToken(@, tokensPerInterval)]
      d == Drain(a, at)
  IN [d EXCEPT !.tokens = ClampTokens(@, tokensPerInterval)]

LimiterRefill(tick, at) ==
  /\ timerRunning
  /\ now' = tick
  /\ Store(RefillResult(Cur, at))
  /\ UNCHANGED <<tokensPerInterval, timerRunning, sig, previous, aborted, nCalls>>

RefillAt(tick, at) == LimiterRefill(tick, at) /\ UNCHANGED <<httpVars, helperVars>>

Refill == now < MaxTicks /\ RefillAt(now + 1, 0)

(* ---- the signal is aborted: flag set, then its handlers are invoked ---- *)
Handlers(s) ==
  IF s = "event" THEN listeners[s]
  ELSE IF s = "onabort" THEN onabort[s]
  ELSE <<>>

LimiterAbort(s) ==
  /\ ~aborted[s]
  /\ aborted' = [aborted EXCEPT ![s] = TRUE]
  /\ LET r == RunHandlers(Handlers(s), Cur) IN
     Store(IF s = "event" THEN [r EXCEPT !.listeners[s] = <<>>] ELSE r)
  /\ UNCHANGED <<tokensPerInterval, timerRunning, sig, previous, now, nCalls>>

Abort(s) == LimiterAbort(s) /\ UNCHANGED <<httpVars, helperVars>>

Next ==
  \/ \E s \in Signals \cup {NoSignal} : Acquire(s)
  \/ Dispose
  \/ Refill
  \/ \E s \in Signals : Abort(s)

Spec == Init /\ [][Next]_vars

(* ---- the same program with an unbounded run of the timer: the clock     *)
(* saturates at MaxTicks, the refill callback keeps firing ---- *)
LiveRefill == RefillAt(Min(now + 1, MaxTicks), 0)

LiveNext ==
  \/ \E s \in Signals \cup {NoSignal} : Acquire(s)
  \/ Dispose
  \/ LiveRefill
  \/ \E s \in Signals : Abort(s)

LiveSpec == Init /\ [][LiveNext]_vars /\ WF_vars(LiveRefill)

(* ---- the same program with the time of every grant recorded ---- *)
TimedAcquire(s) == AcquireAt(s, now)

TimedRefill == now < MaxTicks /\ RefillAt(now + 1, now + 1)

TimedNext ==
  \/ \E s \in Signals \cup {NoSignal} : TimedAcquire(s)
  \/ Dispose
  \/ TimedRefill
  \/ \E s \in Signals : Abort(s)

TimedSpec == Init /\ [][TimedNext]_vars

TypeOK ==
  /\ tokensPerInterval \in Capacities
  /\ tokens \in Int
  /\ status \in [Ids -> {"idle", "queued"} \cup Settled]
  /\ now \in 0..MaxTicks
  /\ nCalls \in 0..MaxAcquires

(***************************************************************************)
(* Properties of the RateLimiter                                           *)
(***************************************************************************)
Range(q) == {q[k] : k \in 1..Len(q)}

Whole(c) == c % One = 0

Granted == {i \in Ids : status[i] = "granted"}

NewlyGranted == {i \in Ids : status'[i] = "granted" /\ status[i] # "granted"}

NewlyAborted == {i \in Ids : status'[i] = "aborted" /\ status[i] # "aborted"}

\* the token count after the `tokens += 1` of a refill step, else unchanged
AfterGain == IF now' # now /\ timerRunning /\ tokens < tokensPerInterval
             THEN tokens + One ELSE tokens

\* acquire() calls that were not rejected for an already aborted signal
Effective == {i \in Ids : status[i] # "idle" /\ via[i] # "call"}

Rank(i) == Cardinality({j \in Effective : j <= i})

GrantsInWindow(k, n) ==
  Cardinality({i \in Granted : grantedAt[i] >= k /\ grantedAt[i] < k + n})

\* C1: with a whole capacity N, every window of N consecutive refill
\* intervals (length intervalMs), at any offset including the one that starts
\* at construction, holds at most N granted acquire() calls, fast-path and
\* queued grants together.
C1_AtMostNPerWindow ==
  (timerRunning /\ Whole(tokensPerInterval)) =>
    \A k \in 0..MaxTicks :
      GrantsInWindow(k, tokensPerInterval \div One) * One <= tokensPerInterval

\* C2: grants follow arrival order: when call b is granted, every earlier
\* call a that is neither cancelled nor disposed has already been granted.
C2_FifoGrantOrder ==
  \A a, b \in Ids :
    (a < b /\ status[b] = "granted" /\ status[a] \notin {"aborted", "disposed"})
      => status[a] = "granted"

C2_Witness ==
  \E a, b \in Ids : a < b /\ via[a] = "refill" /\ via[b] = "refill"

\* C3: in every reachable state 0 <= tokens <= tokensPerInterval.
C3_TokensInRange == 0 <= tokens /\ tokens <= tokensPerInterval

\* C4: with the refill timer ticking fairly while it runs, every pending
\* acquire() is eventually granted, aborted or rejected as disposed,
\* including one issued after dispose().
C4_EveryAcquireSettles ==
  \A i \in Ids : (status[i] = "queued") ~> (status[i] \in Settled)

\* C5: dispose() rejects every queued acquisition with the disposal error,
\* and once dispose() has run no acquire() is ever granted a token.
C5_NoGrantAfterDispose ==
  [][ /\ (timerRunning /\ ~timerRunning') =>
           \A i \in Ids : status[i] = "queued" => status'[i] = "disposed"
      /\ ~timerRunning => NewlyGranted = {} ]_vars

\* C6: acquire(signal) with an already aborted signal rejects with the
\* AbortError, enqueues nothing and leaves the token count alone; an
\* acquire() with a live signal and a token available is granted at once.
C6_PreAbortedRejects ==
  [][ \A i \in Ids :
        (status[i] = "idle" /\ status'[i] # "idle") =>
          IF sig'[i] # NoSignal /\ aborted[sig'[i]]
          THEN /\ status'[i] = "aborted"
               /\ queue' = queue
               /\ tokens' = tokens
               /\ listeners' = listeners /\ onabort' = onabort
          ELSE tokens > 0 => (status'[i] = "granted" /\ queue' = queue) ]_vars

C6_Witness ==
  \E i \in Ids : /\ i + 1 \in Ids
                 /\ status[i] = "aborted" /\ via[i] = "call"
                 /\ status[i + 1] = "granted" /\ via[i + 1] = "fast"

\* C7: when a signal that can fire (addEventListener or onabort) is aborted,
\* the entries queued with it are removed from the queue at that moment,
\* wherever they sit, and rejected with the AbortError, and the other
\* entries stay queued in their order.
C7_AbortRemovesEntry ==
  [][ \A s \in {"event", "onabort"} :
        (~aborted[s] /\ aborted'[s]) =>
          /\ \A i \in Ids : (status[i] = "queued" /\ sig[i] = s)
                              => status'[i] = "aborted"
          /\ queue' = SelectSeq(queue, LAMBDA j : sig[j] # s) ]_vars

\* C8: an acquire() that ends in the AbortError never consumes a token: in
\* the step that enqueues a call and in the step that rejects it (at the
\* call, by its listener, or when refill dequeues it) the token count moves
\* only by the refill increment and by one per acquisition granted in that
\* step, and `tokens -= 1` never ran for an aborted call.
C8_CancellationTakesNoToken ==
  [][ /\ (NewlyAborted # {} \/ Len(queue') > Len(queue)) =>
           tokens' = AfterGain - One * Cardinality(NewlyGranted)
      /\ \A i \in Ids : status'[i] = "aborted" => taken'[i] = 0 ]_vars

C8_Witness ==
  \E i, j \in Ids : /\ status[i] = "aborted" /\ via[i] = "dequeue"
                    /\ status[j] = "aborted" /\ via[j] = "listener"

C9_BeforeFirstTick ==
  (now = 0 /\ Whole(tokensPerInterval)) =>
    /\ \A i \in Effective :
         IF Rank(i) * One <= tokensPerInterval
         THEN status[i] = "granted" /\ via[i] = "fast"
         ELSE status[i] # "granted"
    /\ \A i \in Range(queue) : Rank(i) * One > tokensPerInterval

C9_FirstTickGrants ==
  \A i \in Ids :
    ( /\ now = 0 /\ now' = 1 /\ timerRunning
      /\ Whole(tokensPerInterval)
      /\ (Rank(i) - 1) * One = tokensPerInterval
      /\ status[i] = "queued"
      /\ ~(sig[i] # NoSignal /\ aborted[sig[i]]) )
    => (status'[i] = "granted" /\ via'[i] = "refill")

\* C9: for a fresh limiter with a whole capacity N and no refill tick yet,
\* the first N calls are granted on the fast path with nothing enqueued and
\* the (N+1)th is pending; the first refill tick grants the (N+1)th.
C9_BurstThenQueue == []C9_BeforeFirstTick /\ [][C9_FirstTickGrants]_vars

C9_Witness ==
  \E i \in Ids : /\ tokensPerInterval = 2 * One
                 /\ Rank(i) = 3
                 /\ \A j \in Effective : j < i => via[j] = "fast"
                 /\ via[i] = "refill" /\ now = 1

C10_OneTokenPerWaiter ==
  /\ \A i \in Ids : taken[i] = (IF status[i] = "granted" THEN 1 ELSE 0)
  /\ \A k \in 1..Len(queue) :
       /\ status[queue[k]] = "queued"
       /\ \A m \in 1..Len(queue) : queue[m] = queue[k] => m = k

C10_SettledStays ==
  /\ \A i \in Ids : status[i] \in Settled =>
       (status'[i] = status[i] /\ via'[i] = via[i] /\ taken'[i] = taken[i])
  /\ tokens' = AfterGain - One * Cardinality(NewlyGranted)
  /\ \A s \in Signals :
       (~aborted[s] /\ aborted'[s]) =>
         /\ tokens' = tokens
         /\ NewlyGranted = {}
         /\ queue' = SelectSeq(queue, LAMBDA j : j \in Range(queue'))
         /\ \A j \in Range(queue) \ Range(queue') :
              sig[j] = s /\ status[j] = "queued"
         /\ (\A j \in Ids : sig[j] = s => status[j] # "queued")
              => queue' = queue

\* C10: a waiter never receives more than one token: a call is charged one
\* token exactly when it is granted, a queued entry is always a pending call
\* queued once, a settled call keeps its outcome, every step lowers the
\* token count by exactly one per grant, and an abort changes no token and
\* removes from the queue only pending entries of the aborted signal.
C10_AtMostOneToken == []C10_OneTokenPerWaiter /\ [][C10_SettledStays]_vars

C10_Witness ==
  \E i, j \in Ids :
    /\ status[i] = "granted" /\ via[i] = "refill"
    /\ sig[i] # NoSignal /\ aborted[sig[i]]
    /\ status[j] = "disposed"
    /\ sig[j] # NoSignal /\ aborted[sig[j]]

(***************************************************************************)
(* HttpClient: operations                                                  *)
(***************************************************************************)
(* ---- constructor: config.rateLimiter is null, an instance supplied by   *)
(* the caller, or omitted; the model has one RateLimiter object, which is  *)
(* either the caller's (and may be given to several clients) or the one    *)
(* client 1 created for itself ---- *)
LimiterConfigs ==
  [Clients -> {"null", "supplied"}]
    \cup {[c \in Clients |-> IF c = 1 THEN "omitted" ELSE "null"]}

HasRateLimiter(mode) == mode # "null"

OwnsAnyRateLimiter(mode) == mode # "null"

OwnsRateLimiter(mode) == mode = "omitted"

(* ---- options.useRateLimiter ?? true ---- *)
UseLimiterUnlessAsked(opt) == opt = "true"

UseLimiter(opt) == opt # "false"

(* ---- errors: what a rejected promise carries ---- *)
\* the DOMException/Error made by createAbortError()
AbortError == [NoError EXCEPT !.name = "AbortError"]

\* new Error("Rate limiter disposed")
DisposedError == [NoError EXCEPT !.name = "Rate limiter disposed"]

\* the rejection reason of a settled acquire()
AcquireErrorWrapped(st) ==
  [NoError EXCEPT !.name = "APIError",
                  !.cause = IF st = "aborted" THEN "AbortError"
                            ELSE "Rate limiter disposed"]

AcquireError(st) == IF st = "aborted" THEN AbortError ELSE DisposedError

\* an AxiosError raised for a request made with method m
AxiosError(m, hasResponse, st, code) ==
  [NoError EXCEPT !.name = "AxiosError", !.isAxiosError = TRUE, !.method = m,
                  !.hasResponse = hasResponse, !.status = st, !.code = code]

\* anything else thrown while dispatching (a TypeError, an interceptor's throw)
PlainError == [NoError EXCEPT !.name = "TypeError"]

(* ---- String.prototype.toUpperCase on the method names of the model ---- *)
ToUpperCase(m) ==
  CASE m = "get" -> "GET"
    [] m = "Get" -> "GET"
    [] m = "post" -> "POST"
    [] m = "Post" -> "POST"
    [] m = "put" -> "PUT"
    [] m = "patch" -> "PATCH"
    [] m = "delete" -> "DELETE"
    [] m = "head" -> "HEAD"
    [] m = "options" -> "OPTIONS"
    [] OTHER -> m

IDEMPOTENT_METHODS == {"GET", "PUT", "PATCH", "DELETE"}

(* ---- axios-retry: isNetworkError(error) ---- *)
RetryDeniedCodes == {"ENOTFOUND"}

IsNetworkErrorNever(e) == FALSE

IsNetworkError(e) ==
  /\ ~e.hasResponse
  /\ e.code # "undefined"
  /\ e.code \notin {"ERR_CANCELED", "ECONNABORTED"}
  /\ e.code \notin RetryDeniedCodes

(* ---- HttpClient.shouldRetry ---- *)
\* error.config?.method?.toUpperCase()
MethodOf(e) == IF e.method = "undefined" THEN "undefined" ELSE ToUpperCase(e.method)

\* !method: undefined or the empty string
Falsy(m) == m = "undefined" \/ m = ""

IsMethodRetryableAnyPost(allowPost, method) ==
  \/ Falsy(method)
  \/ method \in IDEMPOTENT_METHODS
  \/ method = "POST"

IsMethodRetryable(allowPost, method) ==
  \/ Falsy(method)
  \/ method \in IDEMPOTENT_METHODS
  \/ (allowPost /\ method = "POST")

RetryableStatus(e) ==
  e.hasResponse /\ (e.status = 408 \/ e.status = 429 \/ e.status >= 500)

ShouldRetry(allowPost, e) ==
  IF ~IsMethodRetryable(allowPost, MethodOf(e)) THEN FALSE
  ELSE IF RetryableStatus(e) THEN TRUE
  ELSE IsNetworkError(e)

(* ---- APIError.fromAxios ---- *)
FromAxios(e) ==
  [NoError EXCEPT !.name = "APIError", !.hasResponse = e.hasResponse,
                  !.status = e.status, !.method = MethodOf(e),
                  !.cause = e.name]

(* ---- request(): from prepareRequestConfig to the first dispatch ---- *)
Dispatch(q) ==
  [q EXCEPT !.phase = "dispatching", !.configBuilds = @ + 1, !.attempts = 1]

Resolve(q) == [q EXCEPT !.phase = "done", !.outcome = "response"]

Reject(q, e) == [q EXCEPT !.phase = "done", !.outcome = "rejected", !.thrown = e]

(* ---- request(): the catch block around axiosInstance.request ---- *)
CaughtWrappingAll(q, e) == Reject([q EXCEPT !.fromAxios = @ + 1], FromAxios(e))

Caught(q, e) ==
  IF e.isAxiosError
  THEN Reject([q EXCEPT !.fromAxios = @ + 1], FromAxios(e))
  ELSE Reject(q, e)

(* ---- axios-retry: the request is sent again with the config it has ---- *)
RedispatchThroughRequest(q) ==
  [q EXCEPT !.attempts = @ + 1, !.configBuilds = @ + 1,
            !.acquireCalls = IF q.acq # 0 THEN @ + 1 ELSE @]

RedispatchWrapping(q) == [q EXCEPT !.attempts = @ + 1, !.fromAxios = @ + 1]

Redispatch(q) == [q EXCEPT !.attempts = @ + 1]

(* ---- axios-retry: retryCount < retries && retryCondition(error) ---- *)
RetryBudgetOneMore(q) == q.attempts - 1 <= retries

RetryBudgetLeft(q) == q.attempts - 1 < retries

(* ---- request(options) up to its first await ---- *)
RequestCall(r, c, opt, s, m) ==
  /\ req[r].phase = "idle"
  /\ \A p \in Requests : p < r => req[p].phase # "idle"
  /\ LET q == [IdleRequest EXCEPT !.client = c, !.useRateLimiter = opt,
                                  !.signal = s, !.method = m] IN
     IF UseLimiter(opt) /\ HasRateLimiter(cfgLimiter[c])
     THEN /\ LimiterAcquire(s, 0)
          /\ req' = [req EXCEPT ![r] = [q EXCEPT !.phase = "awaiting",
                                                 !.acq = nCalls + 1,
                                                 !.acquireCalls = @ + 1]]
     ELSE /\ req' = [req EXCEPT ![r] = Dispatch(q)]
          /\ UNCHANGED limiterVars
  /\ UNCHANGED helperVars
  /\ UNCHANGED <<cfgLimiter, allowPostRetry, retries, disposeCalled, disposedBy>>

(* ---- request() resumes after `await this.rateLimiter.acquire(signal)` ---- *)
RequestResume(r) ==
  /\ req[r].phase = "awaiting"
  /\ status[req[r].acq] \in Settled
  /\ req' = [req EXCEPT ![r] =
               IF status[req[r].acq] = "granted"
               THEN Dispatch(@)
               ELSE Reject(@, AcquireError(status[req[r].acq]))]
  /\ UNCHANGED helperVars
  /\ UNCHANGED <<limiterVars, cfgLimiter, allowPostRetry, retries,
                 disposeCalled, disposedBy>>

(* ---- an attempt of axiosInstance.request ends with a response ---- *)
AttemptSucceeds(r) ==
  /\ req[r].phase = "dispatching"
  /\ req' = [req EXCEPT ![r] = Resolve(@)]
  /\ UNCHANGED helperVars
  /\ UNCHANGED <<limiterVars, cfgLimiter, allowPostRetry, retries,
                 disposeCalled, disposedBy>>

(* ---- an attempt fails with e: the axios-retry interceptor, then the     *)
(* catch block of request() ---- *)
AttemptFails(r, e) ==
  /\ req[r].phase = "dispatching"
  /\ LET q == [req[r] EXCEPT !.err = e, !.shouldRetry = "none"] IN
     req' = [req EXCEPT ![r] =
       IF e.isAxiosError /\ RetryBudgetLeft(q)
       THEN LET v == ShouldRetry(allowPostRetry, e)
                w == [q EXCEPT !.shouldRetry = IF v THEN "true" ELSE "false"]
            IN  IF v THEN Redispatch(w) ELSE Caught(w, e)
       ELSE Caught(q, e)]
  /\ UNCHANGED helperVars
  /\ UNCHANGED <<limiterVars, cfgLimiter, allowPostRetry, retries,
                 disposeCalled, disposedBy>>

(* ---- HttpClient.dispose() ---- *)
ClientDispose(c) ==
  /\ disposeCalled' = disposeCalled \cup {c}
  /\ IF OwnsRateLimiter(cfgLimiter[c])
     THEN /\ LimiterDispose
          /\ disposedBy' = [disposedBy EXCEPT !.clients = @ \cup {c}]
     ELSE UNCHANGED <<limiterVars, disposedBy>>
  /\ UNCHANGED helperVars
  /\ UNCHANGED <<cfgLimiter, allowPostRetry, retries, req>>

(* ---- the caller disposes the limiter it supplied ---- *)
CallerDispose ==
  /\ \E c \in Clients : cfgLimiter[c] = "supplied"
  /\ ~disposedBy.caller
  /\ LimiterDispose
  /\ disposedBy' = [disposedBy EXCEPT !.caller = TRUE]
  /\ UNCHANGED helperVars
  /\ UNCHANGED <<cfgLimiter, allowPostRetry, retries, req, disposeCalled>>

(* ---- one client configured with retry: { retries: 0 }, its concurrent   *)
(* requests and its limiter, which other users (acquire() without a        *)
(* signal) draw tokens from as well; the clock is not advanced, no request *)
(* reads it ---- *)
UseRateLimiterOptions == {"undefined", "true", "false"}

RequestSignals == {NoSignal, "event"}

\* failures of one attempt of a request made with method m
HttpFailures(m) ==
  {AxiosError(m, TRUE, 500, "ERR_BAD_RESPONSE"), PlainError}

\* the timer and the abort of the signal act on the limiter the client
\* uses; only a limiter the caller supplied has other users (the one the
\* client creates is a private field)
LimiterInUse == \E c \in Clients : HasRateLimiter(cfgLimiter[c])

LimiterSupplied == \E c \in Clients : cfgLimiter[c] = "supplied"

OtherAcquire == LimiterSupplied /\ Acquire(NoSignal)

HttpRefill == LimiterInUse /\ RefillAt(now, 0)

HttpAbort == LimiterInUse /\ Abort("event")

HttpInit ==
  /\ LimiterInit
  /\ tokensPerInterval = One
  /\ cfgLimiter \in {f \in LimiterConfigs : \A c \in Clients : c # 1 => f[c] = "null"}
  /\ allowPostRetry = FALSE
  /\ retries = 0
  /\ req = [r \in Requests |-> IdleRequest]
  /\ disposeCalled = {}
  /\ disposedBy = [clients |-> {}, caller |-> FALSE]
  /\ NoHelperCall

HttpNext ==
  \/ \E r \in Requests, opt \in UseRateLimiterOptions, s \in RequestSignals :
       RequestCall(r, 1, opt, s, "get")
  \/ \E r \in Requests : RequestResume(r)
  \/ \E r \in Requests : AttemptSucceeds(r)
  \/ \E r \in Requests : \E e \in HttpFailures(req[r].method) : AttemptFails(r, e)
  \/ ClientDispose(1)
  \/ CallerDispose
  \/ OtherAcquire
  \/ HttpRefill
  \/ HttpAbort

HttpSpec == HttpInit /\ [][HttpNext]_vars

(* ---- several clients with default retry options, which share the       *)
(* limiter the caller supplied or of which the first made its own; their   *)
(* requests carry no signal and succeed ---- *)
OwnerInit ==
  /\ LimiterInit
  /\ tokensPerInterval = One
  /\ cfgLimiter \in LimiterConfigs
  /\ allowPostRetry = FALSE
  /\ retries = DefaultRetries
  /\ req = [r \in Requests |-> IdleRequest]
  /\ disposeCalled = {}
  /\ disposedBy = [clients |-> {}, caller |-> FALSE]
  /\ NoHelperCall

OwnerNext ==
  \/ \E c \in Clients : ClientDispose(c)
  \/ CallerDispose
  \/ \E r \in Requests, c \in Clients :
       RequestCall(r, c, "undefined", NoSignal, "get")
  \/ \E r \in Requests : RequestResume(r)
  \/ \E r \in Requests : AttemptSucceeds(r)
  \/ HttpRefill

OwnerSpec == OwnerInit /\ [][OwnerNext]_vars

(* ---- one request of a client without a limiter or with the one it made  *)
(* for itself, over the retry options and the failures of its attempts;    *)
(* `method` is what error.config?.method holds ---- *)
Methods ==
  {"undefined", "", "get", "Get", "GET", "post", "Post", "POST", "put",
   "patch", "delete", "head", "options"}

Statuses == {304, 400, 404, 408, 429, 499, 500, 503}

NoResponseCodes ==
  {"undefined", "ECONNABORTED", "ERR_CANCELED", "ECONNRESET", "ENOTFOUND"}

Failures(m) ==
  {AxiosError(m, TRUE, st, IF st >= 500 THEN "ERR_BAD_RESPONSE"
                           ELSE "ERR_BAD_REQUEST") : st \in Statuses}
  \cup {AxiosError(m, FALSE, 0, c) : c \in NoResponseCodes}
  \cup {PlainError}

RetryInit ==
  /\ LimiterInit
  /\ tokensPerInterval = One
  /\ cfgLimiter \in {f \in LimiterConfigs : \A c \in Clients : f[c] # "supplied"}
  /\ allowPostRetry \in BOOLEAN
  /\ retries \in (0..MaxRetries) \cup {DefaultRetries}
  /\ req = [r \in Requests |-> IdleRequest]
  /\ disposeCalled = {}
  /\ disposedBy = [clients |-> {}, caller |-> FALSE]
  /\ NoHelperCall

RetryCall == \E m \in Methods : RequestCall(1, 1, "undefined", NoSignal, m)

RetryResume == RequestResume(1)

RetrySucceeds == AttemptSucceeds(1)

RetryFails == \E e \in Failures(req[1].method) : AttemptFails(1, e)

RetryNext == RetryCall \/ RetryResume \/ RetrySucceeds \/ RetryFails

RetrySpec == RetryInit /\ [][RetryNext]_vars

\* every attempt ends: the engine answers or gives up at its timeout
RetryLiveSpec ==
  RetryInit /\ [][RetryNext]_vars /\ WF_vars(RetrySucceeds \/ RetryFails)

(***************************************************************************)
(* Properties of HttpClient.request()                                      *)
(***************************************************************************)
Called == {r \in Requests : req[r].phase # "idle"}

\* the request is one that has to pass the limiter
Gated(q) == q.useRateLimiter # "false" /\ cfgLimiter[q.client] # "null"

LimiterErrorNames == {"AbortError", "Rate limiter disposed"}

\* C11: request() calls acquire(signal) exactly once, and is not dispatched
\* before that acquisition is granted, exactly when useRateLimiter is not
\* false and the client has a limiter; otherwise it never calls acquire()
\* and is dispatched at once.  No request is dispatched while its acquire()
\* is pending.
C11_AcquireGatesDispatch ==
  \A r \in Called :
    LET q == req[r] IN
    /\ q.acquireCalls = IF Gated(q) THEN 1 ELSE 0
    /\ Gated(q) => /\ q.acq \in 1..nCalls
                   /\ sig[q.acq] = q.signal
                   /\ q.attempts > 0 => status[q.acq] = "granted"
                   /\ status[q.acq] = "queued" => q.phase = "awaiting"
    /\ ~Gated(q) => q.acq = 0 /\ q.attempts > 0

C11_Witness ==
  \E r \in Called :
    /\ Gated(req[r]) /\ req[r].phase = "awaiting"
    /\ status[req[r].acq] = "queued"
    /\ \E p \in Ids : p # req[r].acq /\ status[p] = "granted"

\* C14: when the acquire() of a request is rejected (abort or disposal),
\* request() rejects with that very error, not wrapped in an APIError, and
\* the request is never dispatched.
C14_LimiterErrorPropagates ==
  \A r \in Called :
    LET q == req[r] IN
    (q.acq # 0 /\ status[q.acq] \in {"aborted", "disposed"}) =>
      /\ q.attempts = 0 /\ q.configBuilds = 0 /\ q.fromAxios = 0
      /\ q.phase = "done" =>
           /\ q.outcome = "rejected"
           /\ q.thrown.name = (IF status[q.acq] = "aborted" THEN "AbortError"
                               ELSE "Rate limiter disposed")
           /\ q.thrown.cause = "none"

C14_Witness ==
  /\ \E r \in Called :
       /\ req[r].phase = "done" /\ req[r].acq # 0
       /\ status[req[r].acq] = "disposed" /\ req[r].thrown = DisposedError
  /\ aborted["event"]

\* C15 (as stated): every finished request() has returned the response, or
\* rejected with a rate-limiter error, or rejected with an APIError, and
\* every failure of the dispatch step reaches the caller as an APIError.
C15_ThreeOutcomes ==
  \A r \in Called :
    LET q == req[r] IN
    q.phase = "done" =>
      /\ \/ q.outcome = "response"
         \/ q.outcome = "rejected" /\ q.thrown.name \in LimiterErrorNames
         \/ q.outcome = "rejected" /\ q.thrown.name = "APIError"
      /\ (q.outcome = "rejected" /\ q.attempts > 0) => q.thrown.name = "APIError"

\* C15 (amended): every finished request() has returned the response, or
\* rejected with the rate-limiter error before any dispatch, or rejected
\* with the APIError made from the AxiosError of its last attempt, or
\* rejected with the non-Axios error of its last attempt, unchanged.
C15_FourOutcomes ==
  \A r \in Called :
    LET q == req[r] IN
    q.phase = "done" =>
      \/ q.outcome = "response" /\ q.attempts > 0 /\ q.thrown = NoError
      \/ /\ q.outcome = "rejected" /\ q.attempts = 0
         /\ q.thrown.name \in LimiterErrorNames
      \/ /\ q.outcome = "rejected" /\ q.attempts > 0 /\ q.err.isAxiosError
         /\ q.thrown.name = "APIError" /\ q.thrown.cause = "AxiosError"
         /\ q.fromAxios = 1
      \/ /\ q.outcome = "rejected" /\ q.attempts > 0 /\ ~q.err.isAxiosError
         /\ q.thrown = q.err /\ q.thrown.name \notin {"APIError", "none"}
         /\ q.fromAxios = 0

C15_Witness ==
  \E r \in Called :
    /\ req[r].phase = "done" /\ req[r].outcome = "rejected"
    /\ req[r].attempts > 0 /\ req[r].thrown = PlainError

(***************************************************************************)
(* Properties of HttpClient.dispose()                                      *)
(***************************************************************************)
Creators == {c \in Clients : cfgLimiter[c] = "omitted"}

\* C13: HttpClient.dispose() disposes the limiter exactly when the client
\* made it itself (option omitted): a limiter supplied by the caller is not
\* disposed by any sequence of HttpClient.dispose() calls of the clients
\* that share it, and a client with rateLimiter: null disposes nothing.
C13_OnlyOwnerDisposes ==
  /\ disposedBy.clients = disposeCalled \cap Creators
  /\ disposedBy.clients # {} => ~timerRunning
  /\ (Creators = {} /\ ~disposedBy.caller) =>
       /\ timerRunning
       /\ \A i \in Ids : status[i] # "disposed"

C13_Witness ==
  /\ \E c \in Clients, k \in Clients :
       /\ c # k /\ {c, k} \subseteq disposeCalled
       /\ cfgLimiter[c] = "supplied" /\ cfgLimiter[k] = "supplied"
  /\ timerRunning
  /\ \E r \in Called :
       /\ cfgLimiter[req[r].client] = "supplied"
       /\ req[r].phase = "done" /\ status[req[r].acq] = "granted"

(***************************************************************************)
(* Properties of the retries                                               *)
(***************************************************************************)
\* C12: one request() takes at most one token however many attempts it
\* makes: a re-dispatch makes no further acquire() and uses the config
\* prepared once.
C12_OneTokenPerRequest ==
  /\ \A r \in Called :
       /\ req[r].acquireCalls <= 1
       /\ req[r].attempts > 0 => req[r].configBuilds = 1
       /\ req[r].acq # 0 => taken[req[r].acq] <= 1
  /\ nCalls = Cardinality({r \in Called : req[r].acq # 0})
  /\ tokens >= tokensPerInterval - One * nCalls

C12_Witness ==
  \E r \in Called :
    /\ req[r].attempts = 1 + DefaultRetries
    /\ req[r].acq # 0 /\ taken[req[r].acq] = 1
    /\ tokens = tokensPerInterval - One

Dispatching == \E r \in Requests : req[r].phase = "dispatching"

NoneDispatching == \A r \in Requests : req[r].phase # "dispatching"

\* C16 (state part): a request is dispatched at most 1 + retries times, and
\* one that was rejected after an AxiosError carries the APIError made from
\* the failure of its last attempt.
C16_BoundedAttempts ==
  \A r \in Called :
    LET q == req[r] IN
    /\ q.attempts <= 1 + retries
    /\ (q.phase = "done" /\ q.outcome = "rejected" /\ q.err.isAxiosError) =>
         /\ q.thrown.name = "APIError"
         /\ q.thrown.hasResponse = q.err.hasResponse
         /\ q.thrown.status = q.err.status
         /\ q.thrown.cause = q.err.name

\* C16: a request whose attempts keep failing terminates: it is dispatched
\* at most 1 + retries times (3 retries by default) and then rejects with
\* the APIError of its last failure.
C16_RetriesTerminate ==
  []C16_BoundedAttempts /\ (Dispatching ~> NoneDispatching)

C16_Witness ==
  /\ retries = DefaultRetries
  /\ \E r \in Called :
       /\ req[r].method = "get" /\ req[r].attempts = 4
       /\ req[r].phase = "done" /\ req[r].outcome = "rejected"
       /\ req[r].thrown.name = "APIError" /\ req[r].thrown.status = 500

(***************************************************************************)
(* Properties of HttpClient.shouldRetry                                    *)
(***************************************************************************)
\* the requests whose last failure shouldRetry has judged
Judged == {r \in Called : req[r].shouldRetry # "none"}

\* the failure is one that is retried when the method allows it
Classified(e) == IF RetryableStatus(e) \/ IsNetworkError(e) THEN "true" ELSE "false"

\* C17: shouldRetry returns false for a POST while allowPostRetry is false,
\* whatever the status and for a network error too; with allowPostRetry
\* true a POST is classified as GET, PUT, PATCH and DELETE are.
C17_PostNeedsOptIn ==
  \A r \in Judged :
    LET e == req[r].err IN
    /\ (MethodOf(e) = "POST" /\ ~allowPostRetry) => req[r].shouldRetry = "false"
    /\ (MethodOf(e) = "POST" /\ allowPostRetry) => req[r].shouldRetry = Classified(e)
    /\ MethodOf(e) \in {"GET", "PUT", "PATCH", "DELETE"} =>
         req[r].shouldRetry = Classified(e)

C17_Witness ==
  /\ ~allowPostRetry
  /\ \E r \in Judged :
       /\ req[r].err.method = "post" /\ req[r].err.code = "ECONNRESET"
       /\ req[r].shouldRetry = "false" /\ req[r].phase = "done"

\* C18 (as stated): for a method other than GET, PUT, PATCH, DELETE and
\* POST (HEAD, OPTIONS) and for a missing method, shouldRetry returns true
\* whenever the status is 408, 429 or >= 500 or the failure is a network
\* error.
C18_OtherMethodsEligible ==
  \A r \in Judged :
    LET e == req[r].err IN
    (MethodOf(e) \notin {"GET", "PUT", "PATCH", "DELETE", "POST"}
       /\ Classified(e) = "true") => req[r].shouldRetry = "true"

\* C19 (as stated): for GET, PUT, PATCH, DELETE, a POST with allowPostRetry
\* and a missing method, shouldRetry returns true exactly when the status
\* is 408, 429 or >= 500 or no response was received.
C19_StatusOrNoResponse ==
  \A r \in Judged :
    LET e == req[r].err IN
    (\/ MethodOf(e) \in {"GET", "PUT", "PATCH", "DELETE", "undefined", ""}
     \/ (MethodOf(e) = "POST" /\ allowPostRetry)) =>
      (req[r].shouldRetry = "true" <=>
         (~e.hasResponse \/ e.status = 408 \/ e.status = 429 \/ e.status >= 500))

MaxRetryCount == 7   \* largest retryCount handed to computeRetryDelay
RandomSteps   == 4   \* number of values Math.random() takes

BASE_DELAY_MS == 200

MAX_DELAY_MS == 8000

JitterUnit == 5 * RandomSteps   \* `* 0.2` of a multiple of 1/RandomSteps

Ms(x) == x * JitterUnit

Max(a, b) == IF a > b THEN a ELSE b

RECURSIVE Pow2(_)
Pow2(k) == IF k = 0 THEN 1 ELSE 2 * Pow2(k - 1)

(* ---- the retry-after header of error.response: a string holding a      *)
(* number of seconds, an HTTP date (n is its time in ms), any other text,  *)
(* the empty string, or nothing; alone or as the first element of an array *)
(* ---- *)
RetryAfterSeconds == {-5, 0, 1, 5, 8, 9, 120}

RetryAfterDates == {4000, 10000, 13000, 18000, 30000}

Clock == {10000, 20000}

RetryAfterHeaders ==
  {[kind |-> k, n |-> 0, inArray |-> a] :
     k \in {"absent", "empty", "text"}, a \in BOOLEAN}
  \cup {[kind |-> "seconds", n |-> x, inArray |-> a] :
          x \in RetryAfterSeconds, a \in BOOLEAN}
  \cup {[kind |-> "date", n |-> d, inArray |-> a] :
          d \in RetryAfterDates, a \in BOOLEAN}

Null == [isNull |-> TRUE, value |-> 0]

Number(v) == [isNull |-> FALSE, value |-> v]

\* !headerValue
FalsyHeader(h) == h.kind \in {"absent", "empty"}

(* ---- getRetryAfterDelay(error) at Date.now() = t ---- *)
GetRetryAfterDelayInSeconds(h, t) ==
  IF ~h.inArray /\ FalsyHeader(h) THEN Null
  ELSE IF FalsyHeader(h) THEN Null
  ELSE IF h.kind = "seconds" THEN Number(Max(0, h.n))
  ELSE IF h.kind = "date" THEN Number(Max(0, h.n - t))
  ELSE Null

GetRetryAfterDelay(h, t) ==
  IF ~h.inArray /\ FalsyHeader(h) THEN Null
  ELSE IF FalsyHeader(h) THEN Null
  ELSE IF h.kind = "seconds" THEN Number(Max(0, h.n * 1000))
  ELSE IF h.kind = "date" THEN Number(Max(0, h.n - t))
  ELSE Null

(* ---- computeRetryDelay: the exponential and the jitter ---- *)
ExponentialUncapped(retryCount) == BASE_DELAY_MS * Pow2(Max(0, retryCount - 1))

Exponential(retryCount) ==
  Min(MAX_DELAY_MS, BASE_DELAY_MS * Pow2(Max(0, retryCount - 1)))

\* Math.random() * exponential * 0.2, in units of 1/JitterUnit ms
JitterTakenOff(k, exponential) == 0 - k * exponential

Jitter(k, exponential) == k * exponential

(* ---- computeRetryDelay(retryCount, error), in units of 1/JitterUnit ms ---- *)
ComputeRetryDelay(retryCount, h, t, k) ==
  LET retryAfter == GetRetryAfterDelay(h, t) IN
  IF ~retryAfter.isNull
  THEN Ms(Min(retryAfter.value, MAX_DELAY_MS))
  ELSE LET exponential == Exponential(retryCount) IN
       Ms(exponential) + Jitter(k, exponential)

DelayInit ==
  /\ LimiterInit /\ tokensPerInterval = One
  /\ HttpIdle
  /\ headerState = [fn |-> "none"]
  /\ \E n \in 0..MaxRetryCount, h \in RetryAfterHeaders, t \in Clock,
        k \in 0..(RandomSteps - 1) :
       call = [fn |-> "computeRetryDelay", retryCount |-> n, header |-> h,
               now |-> t, random |-> k, done |-> FALSE, result |-> 0]

CallComputeRetryDelay ==
  /\ ~call.done
  /\ call' = [call EXCEPT
                !.done = TRUE,
                !.result = ComputeRetryDelay(call.retryCount, call.header,
                                             call.now, call.random)]
  /\ UNCHANGED <<limiterVars, httpVars, headerState>>

DelayNext == CallComputeRetryDelay

DelaySpec == DelayInit /\ [][DelayNext]_vars

(***************************************************************************)
(* Properties of computeRetryDelay                                         *)
(***************************************************************************)
Usable(h) == h.kind \in {"seconds", "date"}

\* C21: with a Retry-After header of s >= 0 seconds the delay is exactly
\* min(s * 1000, 8000) ms for every attempt number and jitter draw; with an
\* HTTP date d it is min(max(0, d - now), 8000) ms.
C21_RetryAfterHonoured ==
  call.done =>
    /\ (call.header.kind = "seconds" /\ call.header.n >= 0) =>
         call.result = Ms(IF call.header.n * 1000 < 8000
                          THEN call.header.n * 1000 ELSE 8000)
    /\ call.header.kind = "date" =>
         call.result = Ms(IF call.header.n <= call.now THEN 0
                          ELSE IF call.header.n - call.now < 8000
                          THEN call.header.n - call.now ELSE 8000)

C21_Witness ==
  /\ call.done /\ call.header.kind = "seconds" /\ call.header.n = 5
  /\ call.retryCount = 3 /\ call.random > 0 /\ call.result = Ms(5000)

\* C22: without a usable Retry-After header the delay of attempt n >= 1 is
\* d + j with d = min(8000, 200 * 2^(n-1)) and 0 <= j <= 0.2 * d, so it
\* never exceeds 9600 ms.
C22_BackoffWithJitter ==
  (call.done /\ ~Usable(call.header) /\ call.retryCount >= 1) =>
    LET full == 200 * Pow2(call.retryCount - 1)
        d == IF full < 8000 THEN full ELSE 8000
        j == call.result - Ms(d)
    IN  /\ 0 <= j /\ 5 * j <= Ms(d)
        /\ call.result <= Ms(9600)

C22_Witness ==
  /\ call.done /\ ~Usable(call.header) /\ call.retryCount = MaxRetryCount
  /\ call.random = RandomSteps - 1
  /\ call.result > Ms(9000)

\* C23 (as stated): without a Retry-After header the delay of attempt 3 is,
\* for every jitter draw, strictly greater than 800 ms and at most 8000 ms.
C23_AboveEightHundred ==
  (call.done /\ ~Usable(call.header) /\ call.retryCount = 3) =>
    call.result > Ms(800) /\ call.result <= Ms(8000)

\* C23 (amended): without a Retry-After header the delay of attempt 3 is,
\* for every jitter draw, at least 800 ms (exactly 800 when Math.random()
\* returns 0) and less than 960 ms.
C23_FromEightHundred ==
  (call.done /\ ~Usable(call.header) /\ call.retryCount = 3) =>
    /\ call.result >= Ms(800) /\ call.result < Ms(960)
    /\ call.random = 0 <=> call.result = Ms(800)

C23_Witness ==
  /\ call.done /\ call.header.kind = "absent" /\ ~call.header.inArray
  /\ call.retryCount = 3 /\ call.random = 0 /\ call.result = Ms(800)

(***************************************************************************)
(* HttpClient: stored headers and prepareRequestConfig                     *)
(*                                                                         *)
(* An object is a function from its own keys to their values; a key that   *)
(* is missing or undefined is not in the domain.  A per-call header value  *)
(* is a record: t is its JavaScript type, v its strings (the one string of *)
(* a string, the elements of an array) and n its number.                   *)
(***************************************************************************)
MaxPrepared == 2

Has(o, k) == k \in DOMAIN o

\* obj[k] = v
Ext(o, k, v) == [x \in DOMAIN o \cup {k} |-> IF x = k THEN v ELSE o[x]]

\* { ...a, ...b }
Merge(a, b) ==
  [k \in DOMAIN a \cup DOMAIN b |-> IF k \in DOMAIN b THEN b[k] ELSE a[k]]

Str(s) == [t |-> "string", v |-> <<s>>, n |-> 0]
Arr(a) == [t |-> "array", v |-> a, n |-> 0]
Num(i) == [t |-> "number", v |-> <<>>, n |-> i]
NullValue == [t |-> "null", v |-> <<>>, n |-> 0]
UndefinedValue == [t |-> "undefined", v |-> <<>>, n |-> 0]

\* Array.prototype.join
RECURSIVE Join(_, _)
Join(a, sep) ==
  IF a = <<>> THEN ""
  ELSE IF Len(a) = 1 THEN a[1]
  ELSE a[1] \o sep \o Join(Tail(a), sep)

\* String(value) of a string or a number
StringOf(value) == IF value.t = "number" THEN ToString(value.n) ELSE value.v[1]

HeaderText(value) ==
  IF value.t = "array" THEN Join(value.v, ", ") ELSE StringOf(value)

\* The construction configs: authToken missing, empty or set; defaultHeaders
\* missing, adding a header, or replacing Accept as well.
ClientConfigs ==
  LET authTokens == {<<>>, <<"">>, <<"base-token">>}
      defaults == {<<>>, <<("X-Client" :> "sdk")>>,
                   <<("X-Client" :> "sdk") @@ ("Accept" :> "text/csv")>>}
      WithToken(o, tk) == IF tk = <<>> THEN o ELSE Ext(o, "authToken", tk[1])
      WithDefaults(o, d) ==
        IF d = <<>> THEN o ELSE Ext(o, "defaultHeaders", d[1])
  IN  {WithDefaults(WithToken([baseURL |-> "https://api.companycam.com/v2"],
                              tk), d) : tk \in authTokens, d \in defaults}

\* constructor: this.authToken and this.defaultHeaders
Constructor(config) ==
  LET stored ==
        [defaultHeaders |->
           IF Has(config, "defaultHeaders")
           THEN Merge(("Accept" :> "application/json"), config.defaultHeaders)
           ELSE ("Accept" :> "application/json")]
  IN  IF Has(config, "authToken")
      THEN Ext(stored, "authToken", config.authToken)
      ELSE stored

\* The per-call header objects.
CallHeaders ==
  { ("X-Array" :> Arr(<<"one", "two">>)) @@ ("X-Skip" :> UndefinedValue)
      @@ ("X-Correlation-ID" :> Str("abc-123")),
    ("Authorization" :> Str("Basic abc")) @@ ("Accept" :> NullValue)
      @@ ("X-Count" :> Num(7)),
    ("Idempotency-Key" :> Str("mine")) @@ ("X-Client" :> Str("call"))
      @@ ("Accept" :> Str("text/plain")) }

\* The options of one request(): headers, authToken and idempotencyKey are
\* each missing or given (a token or key can be the empty string).
RequestOptions ==
  LET rest == [method |-> "get", url |-> "/projects", useRateLimiter |-> FALSE]
      Opt(o, k, x) == IF x = <<>> THEN o ELSE Ext(o, k, x[1])
  IN  {Opt(Opt(Opt(rest, "headers", h), "authToken", tk), "idempotencyKey", i) :
         h \in {<<>>} \cup {<<x>> : x \in CallHeaders},
         tk \in {<<>>, <<"">>, <<"override-token">>},
         i \in {<<>>, <<"">>, <<"idem-key">>}}

\* authToken ?? this.authToken, as <<>> when undefined
TokenClientFirst(this, options) ==
  IF Has(this, "authToken") THEN <<this.authToken>>
  ELSE IF Has(options, "authToken") THEN <<options.authToken>>
  ELSE <<>>

Token(this, options) ==
  IF Has(options, "authToken") THEN <<options.authToken>>
  ELSE IF Has(this, "authToken") THEN <<this.authToken>>
  ELSE <<>>

\* the headers of the config prepareRequestConfig returns
MergedHeaders(this, options) ==
  LET copied == this.defaultHeaders
      kept == IF Has(options, "headers")
              THEN {k \in DOMAIN options.headers :
                      options.headers[k].t \notin {"undefined", "null"}}
              ELSE {}
      withCall == Merge(copied, [k \in kept |-> HeaderText(options.headers[k])])
      token == Token(this, options)
      withAuth == IF token # <<>> /\ token[1] # ""
                  THEN Ext(withCall, "Authorization", "Bearer " \o token[1])
                  ELSE withCall
  IN  IF Has(options, "idempotencyKey") /\ options.idempotencyKey # ""
      THEN Ext(withAuth, "Idempotency-Key", options.idempotencyKey)
      ELSE withAuth

StrippedOptions == {"authToken", "idempotencyKey", "useRateLimiter", "headers"}

PrepareRequestConfigInPlace(this, options) ==
  [this   |-> Ext(this, "defaultHeaders", MergedHeaders(this, options)),
   config |-> Ext([k \in DOMAIN options \ StrippedOptions |-> options[k]],
                  "headers", MergedHeaders(this, options))]

\* prepareRequestConfig: the client it leaves and the config it returns
PrepareRequestConfig(this, options) ==
  [this   |-> this,
   config |-> Ext([k \in DOMAIN options \ StrippedOptions |-> options[k]],
                  "headers", MergedHeaders(this, options))]

HeaderInit ==
  /\ LimiterInit /\ tokensPerInterval = One
  /\ HttpIdle
  /\ call = [fn |-> "none"]
  /\ \E config \in ClientConfigs :
       headerState = [fn |-> "prepareRequestConfig", config |-> config,
                      this |-> Constructor(config), sent |-> <<>>]

\* request(): the config it prepares and hands to axios
CallPrepareRequestConfig ==
  /\ Len(headerState.sent) < MaxPrepared
  /\ \E options \in RequestOptions :
       LET out == PrepareRequestConfig(headerState.this, options)
       IN  headerState' =
             [headerState EXCEPT
                !.this = out.this,
                !.sent = Append(@, [options |-> options,
                                    config |-> out.config])]
  /\ UNCHANGED <<limiterVars, httpVars, call>>

HeaderNext == CallPrepareRequestConfig

HeaderSpec == HeaderInit /\ [][HeaderNext]_vars

(***************************************************************************)
(* Properties of the request headers                                       *)
(***************************************************************************)
\* C24: the headers of a dispatched request are the client defaults (Accept
\* and the configured defaultHeaders), overridden by the per-call headers
\* (null and undefined values dropped, arrays joined with ", "), overridden
\* by Authorization "Bearer <token>" when the per-call authToken, or without
\* one the client authToken, is a non-empty token, overridden by the
\* Idempotency-Key when a key was given; the dispatched config keeps the
\* other options and has no authToken, idempotencyKey or useRateLimiter key.
C24_HeaderMergeOrder ==
  \A i \in 1..Len(headerState.sent) :
    LET o == headerState.sent[i].options
        c == headerState.sent[i].config
        cfg == headerState.config
        Configured(k) ==
          Has(cfg, "defaultHeaders") /\ k \in DOMAIN cfg.defaultHeaders
        Given(k) == /\ Has(o, "headers") /\ k \in DOMAIN o.headers
                    /\ o.headers[k].t \notin {"null", "undefined"}
        token == IF Has(o, "authToken") THEN o.authToken
                 ELSE IF Has(cfg, "authToken") THEN cfg.authToken ELSE ""
        key == IF Has(o, "idempotencyKey") THEN o.idempotencyKey ELSE ""
        candidates == {"Accept", "Authorization", "Idempotency-Key"}
                        \cup (IF Has(cfg, "defaultHeaders")
                              THEN DOMAIN cfg.defaultHeaders ELSE {})
                        \cup (IF Has(o, "headers")
                              THEN DOMAIN o.headers ELSE {})
    IN  /\ DOMAIN c.headers =
             {k \in candidates :
                \/ k = "Accept" \/ Configured(k) \/ Given(k)
                \/ (k = "Authorization" /\ token # "")
                \/ (k = "Idempotency-Key" /\ key # "")}
        /\ \A k \in DOMAIN c.headers :
             c.headers[k] =
               IF k = "Idempotency-Key" /\ key # "" THEN key
               ELSE IF k = "Authorization" /\ token # ""
                    THEN "Bearer " \o token
               ELSE IF Given(k)
                    THEN (IF o.headers[k].t = "array"
                          THEN Join(o.headers[k].v, ", ")
                          ELSE StringOf(o.headers[k]))
               ELSE IF Configured(k) THEN cfg.defaultHeaders[k]
               ELSE "application/json"
        /\ DOMAIN c = (DOMAIN o \ StrippedOptions) \cup {"headers"}
        /\ \A k \in DOMAIN c \ {"headers"} : c[k] = o[k]

C24_Witness ==
  /\ headerState.fn = "prepareRequestConfig"
  /\ Has(headerState.config, "authToken")
  /\ headerState.config.authToken = "base-token"
  /\ \E i \in 1..Len(headerState.sent) :
       LET o == headerState.sent[i].options
           c == headerState.sent[i].config
       IN  /\ Has(o, "authToken") /\ o.authToken = "override-token"
           /\ Has(o, "headers") /\ Has(o.headers, "X-Array")
           /\ Has(o, "idempotencyKey") /\ o.idempotencyKey = "idem-key"
           /\ Has(headerState.config, "defaultHeaders")
           /\ DOMAIN headerState.config.defaultHeaders = {"X-Client"}
           /\ DOMAIN c.headers = {"Accept", "X-Client", "X-Array",
                                  "X-Correlation-ID", "Authorization",
                                  "Idempotency-Key"}
           /\ c.headers["Authorization"] = "Bearer override-token"
           /\ c.headers["X-Array"] = "one, two"
           /\ ~Has(c.headers, "X-Skip")
           /\ c.headers["Idempotency-Key"] = "idem-key"
           /\ c.headers["X-Client"] = "sdk"

\* C30: request() never changes the client's stored default headers or auth
\* token, and what a request is sent with depends only on the construction
\* config and its own options: two requests of one client with the same
\* options are sent with the same config, whatever was requested before.
C30_ClientHeadersStable ==
  headerState.fn = "prepareRequestConfig" =>
    /\ headerState.this.defaultHeaders =
         (IF Has(headerState.config, "defaultHeaders")
          THEN Merge(("Accept" :> "application/json"),
                     headerState.config.defaultHeaders)
          ELSE ("Accept" :> "application/json"))
    /\ Has(headerState.this, "authToken") = Has(headerState.config, "authToken")
    /\ Has(headerState.config, "authToken") =>
         headerState.this.authToken = headerState.config.authToken
    /\ \A i, j \in 1..Len(headerState.sent) :
         headerState.sent[i].options = headerState.sent[j].options =>
           headerState.sent[i].config = headerState.sent[j].config

C30_Witness ==
  /\ headerState.fn = "prepareRequestConfig"
  /\ Len(headerState.sent) >= 2
  /\ Has(headerState.sent[1].options, "headers")
  /\ Has(headerState.sent[1].options, "authToken")
  /\ headerState.sent[1].options.authToken = "override-token"
  /\ ~Has(headerState.sent[2].options, "headers")
  /\ ~Has(headerState.sent[2].options, "authToken")
  /\ headerState.sent[2].config.headers = headerState.this.defaultHeaders

(***************************************************************************)
(* Properties of the error conversion                                      *)
(***************************************************************************)
\* C26: APIError.fromAxios runs at most once per request() call and only
\* after the last attempt has failed: a request that is still dispatching
\* has not been converted, a converted one is rejected with the APIError,
\* and every error the retry condition judged was the raw AxiosError.
C26_ConvertedOnceAtTheEnd ==
  \A r \in Called :
    LET q == req[r] IN
    /\ q.fromAxios <= 1
    /\ q.phase = "dispatching" => q.fromAxios = 0
    /\ q.fromAxios = 1 =>
         /\ q.phase = "done" /\ q.outcome = "rejected"
         /\ q.thrown.name = "APIError" /\ q.thrown.cause = q.err.name
    /\ q.shouldRetry # "none" =>
         /\ q.err.isAxiosError /\ q.err.name = "AxiosError"
         /\ q.fromAxios = (IF q.phase = "done" /\ q.outcome = "rejected"
                           THEN 1 ELSE 0)

C26_Witness ==
  \E r \in Called :
    /\ req[r].attempts = 2 /\ req[r].fromAxios = 1
    /\ req[r].shouldRetry = "false"
    /\ req[r].phase = "done" /\ req[r].thrown.name = "APIError"

(***************************************************************************)
(* APIError.fromAxios: the request id                                      *)
(***************************************************************************)
\* what a response header can hold: nothing, null, a string (the empty one
\* too), an array of strings, a number
ResponseHeaderValues ==
  {UndefinedValue, NullValue, Str("req-456"), Str("amz-1"), Str(""),
   Arr(<<"req-a", "req-b">>), Num(456)}

\* a ?? b
Coalesce(a, b) == IF a.t \in {"undefined", "null"} THEN b ELSE a

\* response?.headers?.["x-request-id"] ?? response?.headers?.["x-amzn-requestid"],
\* then typeof requestId === "string" ? requestId : undefined (<<>>)
RequestId(e, hasHeaders, headers) ==
  LET requestId ==
        IF e.hasResponse /\ hasHeaders
        THEN Coalesce(headers["x-request-id"], headers["x-amzn-requestid"])
        ELSE UndefinedValue
  IN  IF requestId.t = "string" THEN <<requestId.v[1]>> ELSE <<>>

ErrorInit ==
  /\ LimiterInit /\ tokensPerInterval = One
  /\ HttpIdle
  /\ headerState = [fn |-> "none"]
  /\ \E m \in {"get", "post"}, hasResponse \in BOOLEAN, hasHeaders \in BOOLEAN,
        x \in ResponseHeaderValues, a \in ResponseHeaderValues :
       /\ hasHeaders \/ (x = UndefinedValue /\ a = UndefinedValue)
       /\ hasResponse \/ ~hasHeaders
       /\ call = [fn |-> "fromAxios",
                  error |-> IF hasResponse
                            THEN AxiosError(m, TRUE, 500, "ERR_BAD_RESPONSE")
                            ELSE AxiosError(m, FALSE, 0, "ECONNRESET"),
                  hasHeaders |-> hasHeaders,
                  headers |-> ("x-request-id" :> x) @@ ("x-amzn-requestid" :> a),
                  done |-> FALSE, result |-> NoError, requestId |-> <<>>]

CallFromAxios ==
  /\ ~call.done
  /\ call' = [call EXCEPT
                !.done = TRUE,
                !.result = FromAxios(call.error),
                !.requestId = RequestId(call.error, call.hasHeaders,
                                        call.headers)]
  /\ UNCHANGED <<limiterVars, httpVars, headerState>>

ErrorNext == CallFromAxios

ErrorSpec == ErrorInit /\ [][ErrorNext]_vars

\* C27: fromAxios sets requestId to the x-request-id response header when
\* that is a string, otherwise to x-amzn-requestid when that is a string
\* (also when x-request-id is present but not a string), and to undefined
\* only when neither header is a string.
C27_RequestIdFallback ==
  call.done =>
    LET x == call.headers["x-request-id"]
        a == call.headers["x-amzn-requestid"]
    IN  call.requestId =
          (IF x.t = "string" THEN <<x.v[1]>>
           ELSE IF a.t = "string" THEN <<a.v[1]>>
           ELSE <<>>)

(***************************************************************************)
(* cleanQueryParameters                                                    *)
(*                                                                         *)
(* A query object is a function from its keys to value records as above    *)
(* (a boolean is n = 0 for false, 1 for true); a missing argument and an   *)
(* undefined result are <<>>, an object o is <<o>>.                        *)
(***************************************************************************)
Bool(b) == [t |-> "boolean", v |-> <<>>, n |-> IF b THEN 1 ELSE 0]

QueryKeys == {"page", "per_page", "query"}

QueryValues ==
  {UndefinedValue, NullValue, Num(0), Num(1), Bool(FALSE), Str(""), Str("roof")}

Queries ==
  {<<>>} \cup {<<o>> : o \in UNION {[S -> QueryValues] : S \in SUBSET QueryKeys}}

Nullish(value) == value.t \in {"undefined", "null"}

FalsyValue(value) ==
  \/ Nullish(value)
  \/ (value.t \in {"number", "boolean"} /\ value.n = 0)
  \/ (value.t = "string" /\ value.v[1] = "")

CleanQueryParametersDroppingFalsy(query) ==
  IF query = <<>> THEN <<>>
  ELSE LET kept == {k \in DOMAIN query[1] : ~FalsyValue(query[1][k])}
           cleaned == [k \in kept |-> query[1][k]]
       IN  IF kept # {} THEN <<cleaned>> ELSE <<>>

CleanQueryParameters(query) ==
  IF query = <<>> THEN <<>>
  ELSE LET kept == {k \in DOMAIN query[1] : ~Nullish(query[1][k])}
           cleaned == [k \in kept |-> query[1][k]]
       IN  IF kept # {} THEN <<cleaned>> ELSE <<>>

QueryInit ==
  /\ LimiterInit /\ tokensPerInterval = One
  /\ HttpIdle
  /\ headerState = [fn |-> "none"]
  /\ \E q \in Queries :
       call = [fn |-> "cleanQueryParameters", query |-> q, calls |-> 0,
               result |-> <<>>, previous |-> <<>>]

\* cleanQueryParameters(query), then cleanQueryParameters of what it returned
CallCleanQueryParameters ==
  /\ call.calls < 2
  /\ call' = [call EXCEPT
                !.calls = @ + 1,
                !.previous = call.result,
                !.result = CleanQueryParameters(IF call.calls = 0
                                                THEN call.query
                                                ELSE call.result)]
  /\ UNCHANGED <<limiterVars, httpVars, headerState>>

QueryNext == CallCleanQueryParameters

QuerySpec == QueryInit /\ [][QueryNext]_vars

\* C25: cleanQueryParameters(q) returns exactly the entries of q whose value
\* is neither null nor undefined, values unchanged (0, false and '' kept),
\* and undefined instead of an empty object when q is missing or nothing
\* survives; cleaning its own result returns the same mapping.
C25_CleanedQuery ==
  /\ call.calls >= 1 =>
       LET q == call.query
           first == IF call.calls = 1 THEN call.result ELSE call.previous
           survivors == IF q = <<>> THEN {}
                        ELSE {k \in DOMAIN q[1] :
                                q[1][k].t # "null" /\ q[1][k].t # "undefined"}
       IN  IF survivors = {} THEN first = <<>>
           ELSE /\ first # <<>>
                /\ DOMAIN first[1] = survivors
                /\ \A k \in survivors : first[1][k] = q[1][k]
  /\ call.calls = 2 => call.result = call.previous

C25_Witness ==
  /\ call.calls = 2 /\ call.query # <<>>
  /\ DOMAIN call.query[1] = QueryKeys
  /\ call.query[1]["page"] = Num(0)
  /\ call.query[1]["per_page"] = UndefinedValue
  /\ call.query[1]["query"] = Str("")
  /\ call.result # <<>>
  /\ DOMAIN call.result[1] = {"page", "query"}
  /\ call.result[1]["page"] = Num(0) /\ call.result[1]["query"] = Str("")

(***************************************************************************)
(* Properties of the token count                                           *)
(***************************************************************************)
C28_QueueMeansNoToken ==
  (Whole(tokensPerInterval) /\ queue # <<>>) => tokens = 0

C28_FastPathOnlyWhenQueueEmpty ==
  Whole(tokensPerInterval) =>
    \A i \in Ids :
      (status[i] = "idle" /\ status'[i] = "granted" /\ via'[i] = "fast") =>
        queue = <<>>

\* C28: with a whole capacity a non-empty wait queue implies that the token
\* count is 0, so an acquire() granted on the fast path found the queue
\* empty: it overtakes no queued acquisition.
C28_NoOvertaking ==
  []C28_QueueMeansNoToken /\ [][C28_FastPathOnlyWhenQueueEmpty]_vars

C28_Witness ==
  /\ Whole(tokensPerInterval) /\ timerRunning
  /\ Len(queue) >= 1 /\ tokens = 0 /\ now >= 1
  /\ \E i \in Ids : status[i] = "granted" /\ via[i] = "refill"
  /\ \E i \in Ids : status[i] = "granted" /\ via[i] = "fast"

C29_Conserved ==
  Cardinality(Granted) * One + tokens <= tokensPerInterval + now * One

C29_TickAndDispose ==
  /\ now' # now =>
       /\ tokens' <= tokens + One
       /\ Cardinality(NewlyGranted) <= 1
  /\ ~timerRunning => (tokens' <= tokens /\ now' = now)

\* C29: the acquisitions granted so far plus the current token count never
\* exceed the capacity plus the refill ticks so far; a refill tick adds at
\* most one token and grants at most one queued waiter; after dispose() no
\* token is added.
C29_TokenConservation ==
  []C29_Conserved /\ [][C29_TickAndDispose]_vars

C29_Witness ==
  /\ now = MaxTicks /\ ~timerRunning
  /\ \E i \in Ids : status[i] = "granted" /\ via[i] = "refill"
  /\ Cardinality(Granted) * One + tokens = tokensPerInterval + now * One

====
